---- MODULE Spec2Model ----
(***************************************************************************)
(* A state-machine model of server/pdfGenerator.py: main() parses one      *)
(* JSON request and create_layout_pdf() draws every arrangement on one     *)
(* 33x48 cm reportlab canvas.  Lengths are integers in 1/1000 point.       *)
(* Every call into a library (PyPDF2, cairosvg, PIL, reportlab, os) may    *)
(* either return or raise; the try/except/finally structure of the source  *)
(* decides where a raised exception goes.                                  *)
(***************************************************************************)
EXTENDS Integers, Sequences, FiniteSets, TLC

\* ------------------------------------------------------------------ bounds
MaxPlacements == 2
MaxFiles == 1

\* --------------------------------------------------------------- constants
\* reportlab.lib.units.mm, in 1/1000 point (72 / 25.4 = 2.8346...)
mm == 2835
cm == 10 * mm
Pt(n) == n * 1000

None == "None"

Black == <<0, 0, 0>>
NoDash == <<>>
DefaultFont == <<"Helvetica", Pt(12)>>

Min(a, b) == IF a < b THEN a ELSE b
Max(a, b) == IF a > b THEN a ELSE b

\* dict.get(key, default)
Get(d, key, default) == IF key \in d.fields THEN d[key] ELSE default

\* ------------------------------------------------------------------ inputs
AllPlacementFields == {"designId", "x", "y", "width", "height"}

Placements ==
    { [fields |-> AllPlacementFields, designId |-> "a",
       x |-> 0, y |-> 0, width |-> 50, height |-> 30],
      [fields |-> {"designId", "y", "height"}, designId |-> "b",
       x |-> 0, y |-> 40, width |-> 0, height |-> 20] }

\* a file path: its extension as written, and whether the file is on storage
Paths ==
    { [ext |-> "pdf", exists |-> TRUE],
      [ext |-> "SVG", exists |-> TRUE],
      [ext |-> "png", exists |-> TRUE],
      [ext |-> "png", exists |-> FALSE],
      [ext |-> "ai",  exists |-> TRUE] }

EmptyPath == [ext |-> "", exists |-> FALSE]

\* the asset records of design "a"; the record of the unknown file type has
\* no name.  No record has the id "b".
Assets ==
    { [fields |-> IF p.ext = "ai" THEN {"id", "filePath"} ELSE {"id", "filePath", "name"},
       id |-> "a", filePath |-> p, name |-> IF p.ext = "ai" THEN "" ELSE "A"]
        : p \in Paths }

SeqsUpTo(S, n) == UNION { [1..k -> S] : k \in 0..n }

TopFields == {"arrangements", "designFiles", "outputPath"}

Payload(k, f, a, d) ==
    [kind |-> k, fields |-> f,
     arrangements |-> IF "arrangements" \in f THEN a ELSE <<>>,
     designFiles |-> IF "designFiles" \in f THEN d ELSE <<>>,
     outputPath |-> IF "outputPath" \in f THEN "out.pdf" ELSE ""]

\* sys.argv[1]: text that is not JSON, JSON that is no object, an object
\* with the three top-level fields, or an object that lacks some of them
Payloads ==
    { Payload("invalid", {}, <<>>, <<>>), Payload("nonobject", {}, <<>>, <<>>) }
    \cup
    { Payload("object", TopFields, a, d)
        : a \in SeqsUpTo(Placements, MaxPlacements),
          d \in SeqsUpTo(Assets, MaxFiles) }
    \cup
    { Payload("object", f, <<a>>, <<d>>)
        : f \in SUBSET TopFields, a \in Placements, d \in Assets }

\* ------------------------------------------------------------------- state
VARIABLES
    argv,           \* sys.argv[1:]: <<>> or <<payload>>
    arrangements,   \* main: arrangements
    design_files,   \* main: design_files
    output_path,    \* main: output_path
    pc,             \* position in main / create_layout_pdf
    i,              \* create_layout_pdf: number of finished loop iterations
    c,              \* create_layout_pdf: the canvas c
    tempFiles,      \* temporary PNG files on storage
    exc,            \* stage that raised the exception now propagating, or "none"
    stdout,         \* outcome lines main printed
    exitCode,       \* process exit status
    trace           \* <<placement, stage, outcome>> of every embedding step taken

vars == <<argv, arrangements, design_files, output_path, pc, i, c,
          tempFiles, exc, stdout, exitCode, trace>>

\* ------------------------------------------------------------------ canvas
NewCanvas ==
    [fill |-> Black, stroke |-> Black, dash |-> NoDash, font |-> DefaultFont,
     lineWidth |-> Pt(1), stack |-> <<>>, page |-> <<>>, pages |-> 0, saved |-> 0]

setFillColorRGB(cv, rgb) == [cv EXCEPT !.fill = rgb]
setStrokeColorRGB(cv, rgb) == [cv EXCEPT !.stroke = rgb]
setDash(cv, d) == [cv EXCEPT !.dash = d]
setFont(cv, name, size) == [cv EXCEPT !.font = <<name, size>>]
setLineWidth(cv, w) == [cv EXCEPT !.lineWidth = w]

GState(cv) == [fill |-> cv.fill, stroke |-> cv.stroke, dash |-> cv.dash,
               font |-> cv.font, lineWidth |-> cv.lineWidth]

saveState(cv) == [cv EXCEPT !.stack = Append(@, GState(cv))]

restoreState(cv) ==
    LET s == cv.stack[Len(cv.stack)]
    IN  [cv EXCEPT !.fill = s.fill, !.stroke = s.stroke, !.dash = s.dash,
                   !.font = s.font, !.lineWidth = s.lineWidth,
                   !.stack = SubSeq(@, 1, Len(@) - 1)]

\* one drawing operation on the page; `at` is the source line of the call
DrawOp(cv, kind, at, idx, r, filled, text) ==
    [op |-> kind, at |-> at, idx |-> idx, rect |-> r, filled |-> filled,
     fillColor |-> cv.fill, strokeColor |-> cv.stroke, text |-> text]

rect(cv, at, idx, r, filled) ==
    [cv EXCEPT !.page = Append(@, DrawOp(cv, "rect", at, idx, r, filled, ""))]

drawString(cv, at, idx, x, y, text) ==
    [cv EXCEPT !.page = Append(@, DrawOp(cv, "text", at, idx, <<x, y, 0, 0>>, FALSE, text))]

drawImage(cv, at, idx, r) ==
    [cv EXCEPT !.page = Append(@, DrawOp(cv, "image", at, idx, r, FALSE, ""))]

\* Canvas.save(): ends the page and writes the document
save(cv) == [cv EXCEPT !.pages = @ + 1, !.saved = @ + 1]

\* ---------------------------------------------- create_layout_pdf: helpers
SHEET_WIDTH == 33 * cm
SHEET_HEIGHT == 48 * cm

\* the arrangement of the running iteration and its 1-based number
arrangement == arrangements[i + 1]
idx == i + 1

x_mm(a) == Get(a, "x", 0)
y_mm(a) == Get(a, "y", 0)
width_mm(a) == Get(a, "width", 50)
height_mm(a) == Get(a, "height", 30)

x_pt(a) == x_mm(a) * mm
y_pt(a) == (480 - y_mm(a) - height_mm(a)) * mm
width_pt(a) == width_mm(a) * mm
height_pt(a) == height_mm(a) * mm

\* the rectangle (x_pt, y_pt, width_pt, height_pt) of the placement
Target(a) == <<x_pt(a), y_pt(a), width_pt(a), height_pt(a)>>

\* (x_pt + 2, y_pt + 2, width_pt - 4, height_pt - 4)
Inset(a) == <<x_pt(a) + Pt(2), y_pt(a) + Pt(2), width_pt(a) - Pt(4), height_pt(a) - Pt(4)>>

\* (x_pt - margin, y_pt - margin, width_pt + 2*margin, height_pt + 2*margin)
MarginRect(a) ==
    LET margin == 3 * mm
    IN  <<x_pt(a) - margin, y_pt(a) - margin,
          width_pt(a) + 2 * margin, height_pt(a) + 2 * margin>>

NoFile == [fields |-> {}, id |-> "", filePath |-> EmptyPath, name |-> ""]

\* the first file_info whose id equals design_id, else None
FindDesignFile(files, design_id) ==
    LET hits == { k \in 1..Len(files) : Get(files[k], "id", None) = design_id }
    IN  IF hits = {} THEN NoFile
        ELSE files[CHOOSE k \in hits : \A j \in hits : k <= j]

design_file == FindDesignFile(design_files, Get(arrangement, "designId", None))
file_path == Get(design_file, "filePath", EmptyPath)
file_name == Get(design_file, "name", "Design_" \o ToString(idx))

\* f"{v:.1f}" of a whole number of millimetres
Fmt1(v) == ToString(v) \o ".0"

Dimensions(a) == Fmt1(width_mm(a)) \o "x" \o Fmt1(height_mm(a)) \o "mm"

label_text == ToString(idx) \o ". " \o file_name \o " (" \o Dimensions(arrangement) \o ")"

\* str.lower() of the extensions in use
Lower(ext) ==
    CASE ext = "SVG" -> "svg"
      [] ext = "PDF" -> "pdf"
      [] ext = "PNG" -> "png"
      [] OTHER -> ext

RasterExts == {"jpg", "jpeg", "png"}

\* the branch of the if/elif chain of lines 118, 223, 262, 272
Branch(path) ==
    CASE Lower(path.ext) = "pdf" -> "pdf_primary"
      [] Lower(path.ext) = "svg" -> "svg_rasterize"
      [] Lower(path.ext) \in RasterExts -> "raster_draw"
      [] OTHER -> "unknown"

\* HandlerOf without the try statement of lines 116 and 277: what the inner
\* handlers do not take reaches main
HandlerOf_NoOuterTry(stage, etype) ==
    CASE stage = "pdf_primary"         -> "pdf_fallback"
      [] stage = "svg_rasterize" /\ etype = "ImportError" -> "svg_import_fallback"
      [] stage = "svg_temp" /\ etype = "ImportError"      -> "svg_import_fallback"
      [] stage = "svg_reraise" /\ etype = "ImportError"   -> "svg_import_fallback"
      [] stage = "svg_draw"            -> "svg_img_fallback"
      [] stage = "svg_img_fallback"    -> "svg_unlink"
      [] stage = "raster_draw"         -> "raster_fallback"
      [] OTHER                         -> "main_except"

\* Where an exception raised in `stage` is taken by the enclosing
\* try statements: the inner handlers first, the finally clause of the
\* temporary image, the handler of line 277 for the whole embedding, and
\* last the handler of main.
HandlerOf(stage, etype) ==
    CASE stage = "pdf_import"          -> "generic"
      [] stage = "pdf_primary"         -> "pdf_fallback"
      [] stage = "pdf_fallback"        -> "generic"
      [] stage = "svg_rasterize"       ->
            IF etype = "ImportError" THEN "svg_import_fallback" ELSE "generic"
      [] stage = "svg_temp"            ->
            IF etype = "ImportError" THEN "svg_import_fallback" ELSE "generic"
      [] stage = "svg_draw"            -> "svg_img_fallback"
      [] stage = "svg_img_fallback"    -> "svg_unlink"
      [] stage = "svg_reraise"         ->
            IF etype = "ImportError" THEN "svg_import_fallback" ELSE "generic"
      [] stage = "svg_import_fallback" -> "generic"
      [] stage = "raster_draw"         -> "raster_fallback"
      [] stage = "raster_fallback"     -> "generic"
      [] stage = "unknown"             -> "generic"
      [] OTHER                         -> "main_except"

Log(stage, outcome) == Append(trace, <<idx, stage, outcome>>)

\* the iteration ends normally: the loop takes the next arrangement
EndPlacement ==
    /\ i' = i + 1
    /\ pc' = "loop"
    /\ exc' = "none"

\* `stage` raises an exception of type etype
Raise(stage, etype) ==
    /\ pc' = HandlerOf(stage, etype)
    /\ exc' = stage
    /\ i' = i

\* colours, in percent of full intensity
LightGray == <<80, 80, 80>>
Blue == <<20, 40, 80>>
PdfTint == <<95, 97, 100>>
PdfFallbackTint == <<90, 90, 100>>
Green == <<90, 100, 90>>
Red == <<100, 90, 90>>
Gray95 == <<95, 95, 95>>
Gray90 == <<90, 90, 90>>

\* ------------------------------------------------------------------- Init
Init ==
    /\ argv \in {<<>>} \cup { <<p>> : p \in Payloads }
    /\ arrangements = <<>>
    /\ design_files = <<>>
    /\ output_path = ""
    /\ pc = "start"
    /\ i = 0
    /\ c = NewCanvas
    /\ tempFiles = 0
    /\ exc = "none"
    /\ stdout = <<>>
    /\ exitCode = 0
    /\ trace = <<>>

\* ------------------------------------------------------------------- main
\* lines 295-297: no argument, "Error: JSON data required", sys.exit(1)
MainStart ==
    /\ pc = "start"
    /\ IF Len(argv) < 1
         THEN /\ stdout' = Append(stdout, "Error")
              /\ exitCode' = 1
              /\ pc' = "done"
         ELSE /\ pc' = "parse"
              /\ UNCHANGED <<stdout, exitCode>>
    /\ UNCHANGED <<argv, arrangements, design_files, output_path, i, c,
                   tempFiles, exc, trace>>

\* json.loads returns, and the value it returns has a .get method
ParseOk_Lenient(p) == TRUE

ParseOk(p) == p.kind = "object"

\* lines 301-304
Parse ==
    /\ pc = "parse"
    /\ LET input_data == argv[1]
       IN  IF ParseOk(input_data)
             THEN /\ arrangements' = Get(input_data, "arrangements", <<>>)
                  /\ design_files' = Get(input_data, "designFiles", <<>>)
                  /\ output_path' = Get(input_data, "outputPath", "layout.pdf")
                  /\ pc' = "create"
                  /\ exc' = exc
             ELSE /\ pc' = HandlerOf("parse", "Exception")
                  /\ exc' = "parse"
                  /\ UNCHANGED <<arrangements, design_files, output_path>>
    /\ UNCHANGED <<argv, i, c, tempFiles, stdout, exitCode, trace>>

\* ------------------------------------------------------ create_layout_pdf
\* lines 59-69: the canvas, the title, the summary line, the sheet border
CreateCanvas ==
    /\ pc = "create"
    /\ LET c1 == setFont(NewCanvas, "Helvetica-Bold", Pt(12))
           c2 == drawString(c1, 63, 0, 1 * cm, SHEET_HEIGHT - 1 * cm, "Matbixx")
           c3 == setFont(c2, "Helvetica", Pt(8))
           c4 == drawString(c3, 65, 0, 1 * cm, SHEET_HEIGHT - (3 * cm) \div 2,
                            "Toplam: " \o ToString(Len(arrangements)))
           c5 == setStrokeColorRGB(c4, Black)
           c6 == rect(c5, 69, 0, <<cm \div 2, cm \div 2,
                                   SHEET_WIDTH - 1 * cm, SHEET_HEIGHT - 1 * cm>>, FALSE)
       IN  c' = c6
    /\ pc' = "loop"
    /\ UNCHANGED <<argv, arrangements, design_files, output_path, i,
                   tempFiles, exc, stdout, exitCode, trace>>

\* `not design_file`: None or an empty dict
Falsy(d) == d.fields = {}

\* lines 72-93: next arrangement, its design file, `continue` on a miss
Loop ==
    /\ pc = "loop"
    /\ IF i >= Len(arrangements)
         THEN /\ pc' = "stats"
              /\ i' = i
         ELSE IF Falsy(design_file)
                THEN /\ pc' = "loop"
                     /\ i' = i + 1
                ELSE /\ pc' = "frame"
                     /\ i' = i
    /\ UNCHANGED <<argv, arrangements, design_files, output_path, c,
                   tempFiles, exc, stdout, exitCode, trace>>

\* os.path.exists(file_path)
PathExists_Always(path) == TRUE

PathExists(path) == path.exists

\* lines 95-118: cutting margin, design area, label; then the file test and
\* the extension dispatch
Frame ==
    /\ pc = "frame"
    /\ LET a  == arrangement
           c1 == setStrokeColorRGB(c, LightGray)
           c2 == setDash(c1, <<2, 2>>)
           c3 == rect(c2, 102, idx, MarginRect(a), FALSE)
           c4 == setDash(c3, NoDash)
           c5 == setStrokeColorRGB(c4, Blue)
           c6 == rect(c5, 107, idx, Target(a), FALSE)
           c7 == setFont(c6, "Helvetica", Pt(6))
           c8 == drawString(c7, 112, idx, x_pt(a) + Pt(2), y_pt(a) + Pt(2), label_text)
       IN  c' = c8
    /\ IF PathExists(file_path)
         THEN /\ pc' = Branch(file_path)
              /\ i' = i
              /\ exc' = exc
         ELSE EndPlacement
    /\ UNCHANGED <<argv, arrangements, design_files, output_path,
                   tempFiles, stdout, exitCode, trace>>

Request == <<argv, arrangements, design_files, output_path>>

\* centred text at (x, y): Canvas.drawCentredText is looked up on the canvas
\* when the call is made; a call that returns has drawn the text
drawCentredText(cv, at, k, x, y, text) ==
    [cv EXCEPT !.page = Append(@, DrawOp(cv, "text", at, k, <<x, y, 0, 0>>, FALSE, text))]

\* lines 180-192: the canvas after the tinted rectangle and the border of
\* the vector-document representation
PdfBox(cv, a, k) ==
    LET c1 == saveState(cv)
        c2 == setFillColorRGB(c1, PdfTint)
        c3 == rect(c2, 184, k, Target(a), TRUE)
        c4 == setStrokeColorRGB(c3, Blue)
        c5 == setLineWidth(c4, Pt(1))
        c6 == rect(c5, 189, k, Target(a), FALSE)
    IN  setFillColorRGB(c6, Blue)

\* lines 193-205: the three centred texts, then restoreState
PdfTexts(cv, a, k, name) ==
    LET cx == x_pt(a) + width_pt(a) \div 2
        cy == y_pt(a) + height_pt(a) \div 2
        c1 == setFont(cv, "Helvetica-Bold", Max(Pt(8), Min(width_pt(a) \div 20, Pt(12))))
        c2 == drawCentredText(c1, 194, k, cx, cy, "PDF TASARIM")
        c3 == setFont(c2, "Helvetica", Max(Pt(6), Min(width_pt(a) \div 25, Pt(8))))
        c4 == drawCentredText(c3, 198, k, cx, cy - Pt(15), name)
        c5 == setFont(c4, "Helvetica", Max(Pt(4), Min(width_pt(a) \div 30, Pt(6))))
        c6 == drawCentredText(c5, 203, k, cx, cy - Pt(25), Dimensions(a))
    IN  restoreState(c6)

\* Outcomes of the vector-document strategy, lines 119-205:
\*   "import"   an import of lines 119-122 raises
\*   "read"     PdfReader or the scale computation raises (lines 126-137)
\*   "nopages"  the document has no page: nothing is drawn
\*   "embedded" building the embedded canvas raises (lines 144-177)
\*   "text"     a call of lines 193-203 raises, after saveState and the box
\*   "ok"       every call returns
PdfOutcomes == {"import", "read", "nopages", "embedded", "text", "ok"}

PdfPrimary ==
    /\ pc = "pdf_primary"
    /\ \E o \in PdfOutcomes :
         /\ trace' = Log("pdf_primary", o)
         /\ CASE o = "import" ->
                   /\ c' = c
                   /\ Raise("pdf_import", "Exception")
              [] o \in {"read", "embedded"} ->
                   /\ c' = c
                   /\ Raise("pdf_primary", "Exception")
              [] o = "nopages" ->
                   /\ c' = c
                   /\ EndPlacement
              [] o = "text" ->
                   /\ c' = PdfBox(c, arrangement, idx)
                   /\ Raise("pdf_primary", "Exception")
              [] o = "ok" ->
                   /\ c' = PdfTexts(PdfBox(c, arrangement, idx), arrangement, idx, file_name)
                   /\ EndPlacement
    /\ UNCHANGED <<Request, tempFiles, stdout, exitCode>>

\* lines 210-216: the placeholder of the vector-document fallback
PdfFallbackBox(cv, a, k) ==
    LET c1 == rect(cv, 211, k, Target(a), TRUE)
        c2 == setStrokeColorRGB(c1, Blue)
        c3 == rect(c2, 213, k, Target(a), FALSE)
    IN  setFillColorRGB(c3, Blue)

\* lines 207-220, the handler of the vector-document strategy:
\*   "rect"  the rectangle of line 211 raises
\*   "text"  a text call of lines 217-220 raises, after the placeholder
PdfFallback ==
    /\ pc = "pdf_fallback"
    /\ \E o \in {"rect", "text", "ok"} :
         /\ trace' = Log("pdf_fallback", o)
         /\ LET a  == arrangement
                c0 == setFillColorRGB(c, PdfFallbackTint)
                c1 == PdfFallbackBox(c0, a, idx)
                cx == x_pt(a) + width_pt(a) \div 2
                cy == y_pt(a) + height_pt(a) \div 2
                c2 == setFont(c1, "Helvetica-Bold", Pt(10))
                c3 == drawCentredText(c2, 218, idx, cx, cy, "PDF DOSYASI")
                c4 == setFont(c3, "Helvetica", Pt(8))
                c5 == drawCentredText(c4, 220, idx, cx, cy - Pt(15), file_name)
           IN  CASE o = "rect" -> /\ c' = c0
                                  /\ Raise("pdf_fallback", "Exception")
                 [] o = "text" -> /\ c' = c2
                                  /\ Raise("pdf_fallback", "Exception")
                 [] o = "ok"   -> /\ c' = c5
                                  /\ EndPlacement
    /\ UNCHANGED <<Request, tempFiles, stdout, exitCode>>

\* a tinted placeholder: setFillColorRGB(tint), then rect(inset, fill=1)
Placeholder(cv, at, k, a, tint) == rect(setFillColorRGB(cv, tint), at, k, Inset(a), TRUE)

\* lines 224-231: the imports and cairosvg.svg2png
SvgRasterize ==
    /\ pc = "svg_rasterize"
    /\ \E o \in {"ImportError", "Exception", "ok"} :
         /\ trace' = Log("svg_rasterize", o)
         /\ IF o = "ok"
              THEN /\ pc' = "svg_temp"
                   /\ UNCHANGED <<i, exc>>
              ELSE Raise("svg_rasterize", o)
    /\ UNCHANGED <<Request, c, tempFiles, stdout, exitCode>>

\* lines 234-236: NamedTemporaryFile(suffix='.png', delete=False), write
\*   "create"  the file cannot be created
\*   "write"   temp_img.write raises: the file is closed and stays
SvgTemp ==
    /\ pc = "svg_temp"
    /\ \E o \in {"create", "write", "ok"} :
         /\ trace' = Log("svg_temp", o)
         /\ tempFiles' = IF o = "create" THEN tempFiles ELSE tempFiles + 1
         /\ IF o = "ok"
              THEN /\ pc' = "svg_draw"
                   /\ UNCHANGED <<i, exc>>
              ELSE Raise("svg_temp", "Exception")
    /\ UNCHANGED <<Request, c, stdout, exitCode>>

\* lines 238-241: ImageReader(temp_img_path), drawImage; then the finally
SvgDraw ==
    /\ pc = "svg_draw"
    /\ \E o \in {"Exception", "ok"} :
         /\ trace' = Log("svg_draw", o)
         /\ IF o = "ok"
              THEN /\ c' = drawImage(c, 241, idx, Target(arrangement))
                   /\ pc' = "svg_unlink"
                   /\ UNCHANGED <<i, exc>>
              ELSE /\ c' = c
                   /\ Raise("svg_draw", o)
    /\ UNCHANGED <<Request, tempFiles, stdout, exitCode>>

\* lines 243-247: the handler of the image drawing; then the finally
SvgImgFallback ==
    /\ pc = "svg_img_fallback"
    /\ \E o \in {"Exception", "ok"} :
         /\ trace' = Log("svg_img_fallback", o)
         /\ IF o = "ok"
              THEN /\ c' = Placeholder(c, 247, idx, arrangement, Green)
                   /\ pc' = "svg_unlink"
                   /\ exc' = "none"
                   /\ i' = i
              ELSE /\ c' = setFillColorRGB(c, Green)
                   /\ Raise("svg_img_fallback", o)
    /\ UNCHANGED <<Request, tempFiles, stdout, exitCode>>

\* lines 249-253: os.unlink(temp_img_path), any failure swallowed; then
\* the iteration ends, or the exception of the handler goes on
SvgUnlink ==
    /\ pc = "svg_unlink"
    /\ \E o \in {"Exception", "ok"} :
         /\ trace' = Log("svg_unlink", o)
         /\ tempFiles' = IF o = "ok" THEN tempFiles - 1 ELSE tempFiles
    /\ IF exc = "none"
         THEN EndPlacement
         ELSE /\ pc' = HandlerOf("svg_reraise", "Exception")
              /\ UNCHANGED <<i, exc>>
    /\ UNCHANGED <<Request, c, stdout, exitCode>>

\* lines 255-259: the handler of ImportError
SvgImportFallback ==
    /\ pc = "svg_import_fallback"
    /\ \E o \in {"Exception", "ok"} :
         /\ trace' = Log("svg_import_fallback", o)
         /\ IF o = "ok"
              THEN /\ c' = Placeholder(c, 259, idx, arrangement, Green)
                   /\ EndPlacement
              ELSE /\ c' = setFillColorRGB(c, Green)
                   /\ Raise("svg_import_fallback", o)
    /\ UNCHANGED <<Request, tempFiles, stdout, exitCode>>

\* lines 263-265: ImageReader(file_path), drawImage
RasterDraw ==
    /\ pc = "raster_draw"
    /\ \E o \in {"Exception", "ok"} :
         /\ trace' = Log("raster_draw", o)
         /\ IF o = "ok"
              THEN /\ c' = drawImage(c, 265, idx, Target(arrangement))
                   /\ EndPlacement
              ELSE /\ c' = c
                   /\ Raise("raster_draw", o)
    /\ UNCHANGED <<Request, tempFiles, stdout, exitCode>>

\* lines 266-270: the handler of the raster image
RasterFallback ==
    /\ pc = "raster_fallback"
    /\ \E o \in {"Exception", "ok"} :
         /\ trace' = Log("raster_fallback", o)
         /\ IF o = "ok"
              THEN /\ c' = Placeholder(c, 270, idx, arrangement, Red)
                   /\ EndPlacement
              ELSE /\ c' = setFillColorRGB(c, Red)
                   /\ Raise("raster_fallback", o)
    /\ UNCHANGED <<Request, tempFiles, stdout, exitCode>>

\* lines 272-275: unknown file type
Unknown ==
    /\ pc = "unknown"
    /\ \E o \in {"Exception", "ok"} :
         /\ trace' = Log("unknown", o)
         /\ IF o = "ok"
              THEN /\ c' = Placeholder(c, 275, idx, arrangement, Gray95)
                   /\ EndPlacement
              ELSE /\ c' = setFillColorRGB(c, Gray95)
                   /\ Raise("unknown", o)
    /\ UNCHANGED <<Request, tempFiles, stdout, exitCode>>

\* lines 277-281: the handler of the whole embedding attempt
Generic ==
    /\ pc = "generic"
    /\ \E o \in {"Exception", "ok"} :
         /\ trace' = Log("generic", o)
         /\ IF o = "ok"
              THEN /\ c' = Placeholder(c, 281, idx, arrangement, Gray90)
                   /\ EndPlacement
              ELSE /\ c' = setFillColorRGB(c, Gray90)
                   /\ Raise("generic", o)
    /\ UNCHANGED <<Request, tempFiles, stdout, exitCode>>

\* lines 284-288: the statistics block
Stats ==
    /\ pc = "stats"
    /\ LET c1 == setFont(c, "Helvetica", Pt(8))
           c2 == drawString(c1, 286, 0, 1 * cm, 2 * cm,
                            "Toplam: " \o ToString(Len(arrangements)))
           c3 == drawString(c2, 287, 0, 1 * cm, 2 * cm - (4 * cm) \div 10, "Kesim")
           c4 == drawString(c3, 288, 0, 1 * cm, 2 * cm - (8 * cm) \div 10, "Algoritma")
       IN  c' = c4
    /\ pc' = "save"
    /\ UNCHANGED <<Request, i, tempFiles, exc, stdout, exitCode, trace>>

\* lines 290-291: c.save() writes the document to output_path, or raises
\* when the output target cannot be written; return True
Save ==
    /\ pc = "save"
    /\ \E o \in {"Exception", "ok"} :
         IF o = "ok"
           THEN /\ c' = save(c)
                /\ pc' = "report"
                /\ exc' = exc
           ELSE /\ c' = c
                /\ pc' = HandlerOf("save", o)
                /\ exc' = "save"
    /\ UNCHANGED <<Request, i, tempFiles, stdout, exitCode, trace>>

\* lines 307-310: success is True, "SUCCESS: PDF created at ..."
Report ==
    /\ pc = "report"
    /\ stdout' = Append(stdout, "SUCCESS")
    /\ pc' = "done"
    /\ UNCHANGED <<Request, i, c, tempFiles, exc, exitCode, trace>>

\* lines 315-317 without the sys.exit(1)
MainExcept_NoExit ==
    /\ pc = "main_except"
    /\ stdout' = Append(stdout, "ERROR")
    /\ pc' = "done"
    /\ UNCHANGED <<Request, i, c, tempFiles, exc, exitCode, trace>>

\* lines 315-317: "ERROR: ...", sys.exit(1)
MainExcept ==
    /\ pc = "main_except"
    /\ stdout' = Append(stdout, "ERROR")
    /\ exitCode' = 1
    /\ pc' = "done"
    /\ UNCHANGED <<Request, i, c, tempFiles, exc, trace>>

Next ==
    \/ MainStart
    \/ Parse
    \/ CreateCanvas
    \/ Loop
    \/ Frame
    \/ PdfPrimary
    \/ PdfFallback
    \/ SvgRasterize
    \/ SvgTemp
    \/ SvgDraw
    \/ SvgImgFallback
    \/ SvgUnlink
    \/ SvgImportFallback
    \/ RasterDraw
    \/ RasterFallback
    \/ Unknown
    \/ Generic
    \/ Stats
    \/ Save
    \/ Report
    \/ MainExcept

Spec == Init /\ [][Next]_vars

TypeOK ==
    /\ pc \in {"start", "parse", "create", "loop", "frame", "pdf_primary",
               "pdf_fallback", "svg_rasterize", "svg_temp", "svg_draw",
               "svg_img_fallback", "svg_unlink", "svg_import_fallback",
               "raster_draw", "raster_fallback", "unknown", "generic",
               "stats", "save", "report", "main_except", "done"}
    /\ i \in 0..Len(arrangements)
    /\ tempFiles \in Nat
    /\ exitCode \in {0, 1}

\* fairness: the interpreter runs the next statement while there is one
FairSpec == Spec /\ WF_vars(Next)

\* ------------------------------------------------------- reading the page
N == Len(arrangements)

OpsAt(at, k) == { n \in 1..Len(c.page) : c.page[n].at = at /\ c.page[n].idx = k }

HasOp(at, k) == OpsAt(at, k) # {}

\* source lines of the placeholder rectangles drawn when embedding fails or
\* is not attempted
FallbackLines == {211, 247, 259, 270, 275, 281}

FallbackBoxes(k) ==
    { n \in 1..Len(c.page) : c.page[n].idx = k /\ c.page[n].at \in FallbackLines }

Steps(k) == { n \in 1..Len(trace) : trace[n][1] = k }

Resolved(k) == ~Falsy(FindDesignFile(design_files, Get(arrangements[k], "designId", None)))

PathOf(k) ==
    Get(FindDesignFile(design_files, Get(arrangements[k], "designId", None)),
        "filePath", EmptyPath)

Parsed == pc \notin {"start", "parse"} /\ Len(argv) = 1 /\ ParseOk(argv[1])

Success == stdout = <<"SUCCESS">> /\ exitCode = 0
Failure == exitCode = 1 /\ Len(stdout) = 1 /\ stdout[1] \in {"ERROR", "Error"}

\* placements whose handling has ended
Handled == 1..i

EmbedStages ==
    {"pdf_import", "pdf_primary", "pdf_fallback", "svg_rasterize", "svg_temp",
     "svg_draw", "svg_img_fallback", "svg_import_fallback", "raster_draw",
     "raster_fallback", "unknown"}

\* ------------------------------------------------------------------ claims

\* C1: a run of create_layout_pdf that completes has drawn exactly N
\* placement border rectangles on exactly one page.
C1_ExactlyNBorders ==
    (pc = "report" \/ (pc = "done" /\ Success)) =>
        /\ c.pages = 1
        /\ Cardinality({ n \in 1..Len(c.page) : c.page[n].at = 107 }) = N
        /\ \A k \in 1..N : Cardinality(OpsAt(107, k)) = 1

\* C2: an exception raised at a stage of the primary strategy or of its
\* fallback never reaches main; when no other call failed the run ends in
\* success with the canvas saved, every placement handled and every placement
\* that has a design file framed.
C2_FailuresStayLocal ==
    /\ pc \in {"main_except", "done"} => exc \notin EmbedStages
    /\ (pc = "done" /\ Len(argv) = 1 /\ exc = "none") =>
          /\ Success
          /\ c.saved = 1
          /\ i = N
          /\ \A k \in 1..N : Resolved(k) => HasOp(107, k)

\* C2 witness: the fallback of the first placement failed after its primary
\* strategy had failed, the second placement was framed, the run succeeded
C2_Witness ==
    /\ pc = "done" /\ Success
    /\ N >= 2
    /\ \E n \in Steps(1) : trace[n][2] = "pdf_fallback" /\ trace[n][3] = "text"
    /\ HasOp(107, 2)

C3_Outcome ==
    /\ pc # "done" => stdout = <<>> /\ exitCode = 0
    /\ pc = "done" => (Success \/ Failure) /\ ~(Success /\ Failure)
    /\ c.saved <= 1
    /\ stdout = <<"SUCCESS">> => c.saved = 1
    /\ c.saved = 1 =>
          /\ i = N
          /\ HasOp(286, 0) /\ HasOp(287, 0) /\ HasOp(288, 0)
          /\ c.page[Len(c.page)].at = 288

\* C3: every invocation of main ends, in exactly one of success and failure;
\* success is printed only after the canvas was saved exactly once, and the
\* canvas is saved only after the loop is over and the statistics are drawn.
C3_ExactlyOneOutcome == []C3_Outcome /\ <>(pc = "done")

C3_Witness == pc = "done" /\ Success /\ N >= 1 /\ c.saved = 1

\* C4 as stated: a payload that is not structured data, or lacks any of
\* arrangements, designFiles, outputPath, ends in failure, never in success.
C4_MissingFieldFatal ==
    (Len(argv) = 1 /\ (argv[1].kind # "object" \/ argv[1].fields # TopFields)) =>
        /\ stdout # <<"SUCCESS">>
        /\ pc = "done" => Failure

\* C4 amended: a payload that is not JSON, or whose top level is no object,
\* ends in failure and never in success, and no canvas is made for it; an
\* object lacking a top-level field is rendered with the default of that
\* field (no arrangements, no design files, "layout.pdf").
C4_UnparsableFatal ==
    /\ (Len(argv) = 1 /\ argv[1].kind # "object") =>
          /\ stdout # <<"SUCCESS">>
          /\ c = NewCanvas
          /\ pc = "done" => Failure /\ exc = "parse"
    /\ (Len(argv) = 1 /\ argv[1].kind = "object" /\ pc \notin {"start", "parse"}) =>
          /\ arrangements =
               IF "arrangements" \in argv[1].fields THEN argv[1].arrangements ELSE <<>>
          /\ design_files =
               IF "designFiles" \in argv[1].fields THEN argv[1].designFiles ELSE <<>>
          /\ output_path =
               IF "outputPath" \in argv[1].fields THEN argv[1].outputPath ELSE "layout.pdf"

C4_Witness == pc = "done" /\ Len(argv) = 1 /\ argv[1].kind = "invalid" /\ Failure

\* C5: for a placement whose designId is the id of no design file, the
\* cutting margin, the border and the label are drawn, no fallback box is
\* drawn and no embedding is attempted.
C5_MissFramed ==
    Parsed =>
      \A k \in Handled :
        ~Resolved(k) =>
            /\ HasOp(102, k) /\ HasOp(107, k) /\ HasOp(112, k)
            /\ FallbackBoxes(k) = {}
            /\ Steps(k) = {}

RasterizationFailed(k) ==
    \E n \in Steps(k) :
        /\ trace[n][2] \in {"svg_rasterize", "svg_draw"}
        /\ trace[n][3] # "ok"

\* C6: whenever the rasterization of an existing .svg file fails, the
\* placement gets a green fallback box on its exact target rectangle.
C6_GreenBoxAtTarget ==
    Parsed =>
      \A k \in Handled :
        (Resolved(k) /\ RasterizationFailed(k)) =>
            \E n \in 1..Len(c.page) :
                /\ c.page[n].idx = k
                /\ c.page[n].op = "rect" /\ c.page[n].filled
                /\ c.page[n].fillColor = Green
                /\ c.page[n].rect = Target(arrangements[k])

\* the end-to-end scenario: one placement, its design file found, a raster
\* path that is not on storage, and no failure outside the placement
MissingRasterRun ==
    /\ Parsed /\ pc = "done" /\ exc = "none"
    /\ N = 1 /\ Resolved(1)
    /\ Lower(PathOf(1).ext) \in RasterExts
    /\ ~PathOf(1).exists

\* C7 as stated: the run succeeds and the one region has its label and a
\* red or gray fallback box.
C7_MissingRasterBoxed ==
    MissingRasterRun =>
        /\ Success
        /\ HasOp(107, 1) /\ HasOp(112, 1)
        /\ \E n \in FallbackBoxes(1) : c.page[n].fillColor \in {Red, Gray95, Gray90}

\* C7 amended: the run succeeds and the one region has its border and its
\* label "1. A (50.0x30.0mm)"; no fallback box is drawn and no embedding is
\* attempted for it.
C7_MissingRasterSkipped ==
    MissingRasterRun =>
        /\ Success
        /\ Cardinality(OpsAt(107, 1)) = 1
        /\ \A n \in OpsAt(107, 1) : c.page[n].rect = <<0, 450 * mm, 50 * mm, 30 * mm>>
        /\ \E n \in OpsAt(112, 1) : c.page[n].text = "1. A (50.0x30.0mm)"
        /\ FallbackBoxes(1) = {}
        /\ { n \in 1..Len(c.page) : c.page[n].idx = 1 /\ c.page[n].op = "image" } = {}
        /\ Steps(1) = {}

C7_Witness == MissingRasterRun /\ Success

UnlinkFailures ==
    Cardinality({ n \in 1..Len(trace) :
                    trace[n][2] = "svg_unlink" /\ trace[n][3] = "Exception" })

\* C8: when the handling of a placement has ended, every temporary PNG file
\* made for it has been removed, unless removing it failed; and a failed
\* removal does not stop the loop.
C8_TempReleased ==
    /\ pc \in {"loop", "stats", "save", "report"} => tempFiles = UnlinkFailures
    /\ \A n \in 1..Len(trace) :
          (trace[n][2] = "svg_unlink" /\ n = Len(trace) /\ exc = "none") => pc = "loop"

\* C9: for every placement at most one fallback box is drawn and no step is
\* taken twice.
C9_OneFallback ==
    \A k \in 1..N :
        /\ Cardinality(FallbackBoxes(k)) <= 1
        /\ \A m, n \in Steps(k) : trace[m][2] = trace[n][2] => m = n

\* C10: when the handling of a placement has ended the fill colour is the
\* one it was before and no saveState is unmatched; every label and the
\* statistics block are drawn with that fill colour.
C10_NoStyleLeak ==
    /\ pc \in {"loop", "stats", "save", "report"} =>
          /\ c.fill = NewCanvas.fill
          /\ c.stack = <<>>
    /\ \A n \in 1..Len(c.page) :
          c.page[n].at \in {112, 286, 287, 288} => c.page[n].fillColor = NewCanvas.fill

====
